---- MODULE Spec2Model ----
(***************************************************************************)
(* Model of the scbilliards importer (src/loader.py): the operator's       *)
(* execute(), load_billiard_data(), t2frame() and add_box(), together with *)
(* the part of the host scene API (object creation, keyframe_insert,       *)
(* animation_data) that the loader drives.                                 *)
(*                                                                         *)
(* Floats are fixed-point: a value v is stored as the integer v * Den.     *)
(* Object indices and frame numbers are plain integers.                    *)
(***************************************************************************)
EXTENDS Integers, Sequences, FiniteSets, TLC

\* Longest input file, in rows.
MaxRows == 4

\* Fixed-point denominator of every float value (tenths).
Den == 10

----------------------------------------------------------------------------
\* CSV fields.  A field is the text of one comma-separated column: either a
\* piece of text float() rejects, or the decimal text of num / Den.

Num(n) == [txt |-> "num", num |-> n]
Txt(s) == [txt |-> s, num |-> 0]

\* The rows an input file is made of.
Rows ==
  { <<Txt("box"), Num(20)>>,                               \* box,2.0
    <<Txt("box"), Txt("abc")>>,                            \* box,abc
    <<Txt("default-radius"), Num(2)>>,                     \* default-radius,0.2
    <<Txt("r"), Num(10), Num(5)>>,                         \* r,1,0.5
    <<Txt("r"), Num(15), Num(7)>>,                         \* r,1.5,0.7
    \* c,index,<unused>,time,x,y,z,rx,ry,rz
    <<Txt("c"), Num(0), Num(90), Num(50), Num(1), Num(2), Num(3), Num(4), Num(5), Num(6)>>,
    <<Txt("c"), Num(0), Num(90), Num(10), Num(11), Num(12), Num(13), Num(14), Num(15), Num(16)>>,
    <<Txt("c"), Num(10), Num(90), Num(-1), Num(21), Num(22), Num(23), Num(24), Num(25), Num(26)>>,
    <<Txt("c"), Num(20), Num(90), Num(0), Num(41), Num(42), Num(43), Num(44), Num(45), Num(46)>>,
    \* c,index,time,x,y,z,rx,ry,rz
    <<Txt("c"), Num(0), Num(10), Num(31), Num(32), Num(33), Num(34), Num(35), Num(36)>>,
    <<Txt("# comment")>>,                                  \* comment line
    <<>>,                                                  \* blank line
    <<Txt(""), Num(10)>> }                                 \* empty first field

\* The operator properties a user can set before running the operator.
Settings ==
  { [initfile |-> "balls.csv", time_scale |-> 240,
     show_xlo |-> TRUE, show_xhi |-> FALSE, show_ylo |-> FALSE,
     show_yhi |-> TRUE, show_zlo |-> TRUE, show_zhi |-> FALSE],
    [initfile |-> "balls.csv", time_scale |-> 5,
     show_xlo |-> TRUE, show_xhi |-> TRUE, show_ylo |-> TRUE,
     show_yhi |-> TRUE, show_zlo |-> TRUE, show_zhi |-> TRUE],
    [initfile |-> "balls.csv", time_scale |-> 240,
     show_xlo |-> FALSE, show_xhi |-> FALSE, show_ylo |-> FALSE,
     show_yhi |-> FALSE, show_zlo |-> FALSE, show_zhi |-> FALSE],
    [initfile |-> "", time_scale |-> 240,
     show_xlo |-> TRUE, show_xhi |-> FALSE, show_ylo |-> FALSE,
     show_yhi |-> TRUE, show_zlo |-> TRUE, show_zhi |-> FALSE] }

----------------------------------------------------------------------------
\* Numeric conversions.

\* Quotient rounded toward zero (Python's int() of a float).
Trunc(a, d) == IF a >= 0 THEN a \div d ELSE -((-a) \div d)

\* int(float(field)): the integer part of a parsed field.
int(x) == Trunc(x, Den)

\* Variant of t2frame that rounds the product down instead of toward zero.
t2frame_floor(t, tscale) == ((t * tscale) \div (Den * Den)) + 1

\* t2frame: int(t * tscale) + 1
t2frame(t, tscale) == Trunc(t * tscale, Den * Den) + 1

----------------------------------------------------------------------------
\* Parser: one row of the csv reader.

\* row[k] with Python's 0-based indexing.
Field(row, k) == row[k + 1]

\* First character of a field's text; "" when the text is empty.
FirstChar(f) ==
  CASE f.txt = ""               -> ""
    [] f.txt = "# comment"      -> "#"
    [] f.txt = "box"            -> "b"
    [] f.txt = "default-radius" -> "d"
    [] f.txt = "r"              -> "r"
    [] f.txt = "c"              -> "c"
    [] f.txt = "abc"            -> "a"
    [] OTHER                    -> "0"

\* Evaluating row[0][0] raises IndexError on an empty row or an empty field.
SkipTestRaises(row) == Len(row) = 0 \/ FirstChar(Field(row, 0)) = ""

\* The skip test of the loop: row[0][0] == '#'
IsSkipped(row) == FirstChar(Field(row, 0)) = "#"

\* Columns a row's branch converts with float(), in evaluation order.
Columns(tag) ==
  CASE tag = "box"            -> <<1>>
    [] tag = "default-radius" -> <<1>>
    [] tag = "r"              -> <<1, 2>>
    [] tag = "c"              -> <<3, 1, 4, 5, 6, 7, 8, 9>>
    [] OTHER                  -> <<>>

\* The exception float(row[k]) raises, "none" when it returns.
ColumnError(row, k) ==
  IF k >= Len(row) THEN "IndexError"
  ELSE IF Field(row, k).txt # "num" THEN "ValueError"
  ELSE "none"

RECURSIVE FirstError(_, _)
FirstError(row, cols) ==
  IF cols = <<>> THEN "none"
  ELSE IF ColumnError(row, Head(cols)) # "none" THEN ColumnError(row, Head(cols))
  ELSE FirstError(row, Tail(cols))

\* The exception one iteration of the read loop raises on this row.
RowError(row) ==
  IF SkipTestRaises(row) THEN "IndexError"
  ELSE IF IsSkipped(row) THEN "none"
  ELSE FirstError(row, Columns(Field(row, 0).txt))

\* float(row[k])
float(row, k) == Field(row, k).num

\* Collision.__init__
Collision(index, t, xyz, angles) ==
  [index |-> index, t |-> t, xyz |-> xyz, angles |-> angles]

\* Variant of the 'c' branch that reads the columns index,time,x,y,z,rx,ry,rz.
CollisionOfRowSwapped(row) ==
  Collision(int(float(row, 1)), float(row, 2),
            <<float(row, 3), float(row, 4), float(row, 5)>>,
            <<float(row, 6), float(row, 7), float(row, 8)>>)

\* The 'c' branch: the Collision built from a row.
CollisionOfRow(row) ==
  Collision(int(float(row, 1)), float(row, 3),
            <<float(row, 4), float(row, 5), float(row, 6)>>,
            <<float(row, 7), float(row, 8), float(row, 9)>>)

\* Variant of the append that puts the newest event first.
PrependCollision(clist, coll) == <<coll>> \o clist

\* clist.append(coll)
AppendCollision(clist, coll) == Append(clist, coll)

\* rspec[index] = value, rspec a set of <<index, value>> with unique indices.
SetRadius(rspec, index, value) ==
  {p \in rspec : p[1] # index} \cup {<<index, value>>}

\* What the read loop holds before the first row: b unbound (<<>>), the
\* default radius of params, no overrides, no events.
ParseInit(default_r) ==
  [b |-> <<>>, default_r |-> default_r, rspec |-> {}, clist |-> <<>>]

\* One iteration of the read loop on a row that raises nothing.
ParseRow(st, row) ==
  LET tag == Field(row, 0).txt IN
  IF IsSkipped(row) THEN st
  ELSE IF tag = "box" THEN [st EXCEPT !.b = <<float(row, 1)>>]
  ELSE IF tag = "default-radius" THEN [st EXCEPT !.default_r = float(row, 1)]
  ELSE IF tag = "r" THEN
    [st EXCEPT !.rspec = SetRadius(st.rspec, int(float(row, 1)), float(row, 2))]
  ELSE IF tag = "c" THEN
    [st EXCEPT !.clist = AppendCollision(st.clist, CollisionOfRow(row))]
  ELSE st

----------------------------------------------------------------------------
\* Scene derivation: particle count and radii.

\* Variant of max() that accepts an empty list.
MaxNeverRaises(clist) == FALSE

\* max(clist, ...) raises ValueError on an empty list.
MaxRaises(clist) == clist = <<>>

\* The largest index of the events (max(clist, key=index).index).
RECURSIVE MaxIndex(_)
MaxIndex(clist) ==
  IF clist = <<>> THEN -1
  ELSE LET rest == MaxIndex(Tail(clist)) IN
       IF Head(clist).index >= rest THEN Head(clist).index ELSE rest

\* Variant of the particle count without the + 1.
ParticleCountNoPlusOne(clist) == MaxIndex(clist)

\* np = m.index + 1
ParticleCount(clist) == MaxIndex(clist) + 1

\* radii[ix] = rspec[ix] raises IndexError for an index past the list.
RadiiRaises(np, rspec) == \E p \in rspec : p[1] >= np

\* Variant of radii that ignores the overrides.
RadiiDefaultOnly(np, default_r, rspec) == [i \in 1..np |-> default_r]

\* radii: the default for every particle, then the overrides.  radii[i + 1]
\* is the radius of particle i.
Radii(np, default_r, rspec) ==
  [i \in 1..np |->
     IF \E p \in rspec : p[1] = i - 1
     THEN (CHOOSE p \in rspec : p[1] = i - 1)[2]
     ELSE default_r]

----------------------------------------------------------------------------
\* Scene objects.

RECURSIVE Digits(_)
Digits(n) == IF n < 10 THEN <<n>> ELSE Append(Digits(n \div 10), n % 10)

\* str(k).zfill(width), as a sequence of digits.
RECURSIVE zfill(_, _)
zfill(d, width) == IF Len(d) >= width THEN d ELSE zfill(<<0>> \o d, width)

\* "sphere." + str(k).zfill(4)
SphereName(k) == [prefix |-> "sphere.", digits |-> zfill(Digits(k), 4)]

\* primitive_uv_sphere_add() and the setup of the new object: at the origin,
\* unrotated, unit scale, no animation data.
NewSphere(k) ==
  [name |-> SphereName(k), rotation_mode |-> "XYZ", use_smooth |-> TRUE,
   location |-> <<0, 0, 0>>, rotation_euler |-> <<0, 0, 0>>,
   scale |-> <<Den, Den, Den>>,
   animation_data |-> FALSE, keyframe_points |-> {}]

\* The value of an object's animatable property.
Property(ob, path) ==
  IF path = "location" THEN ob.location ELSE ob.rotation_euler

\* ob.keyframe_insert(path, frame=frame): creates the animation data when the
\* object has none, and on each of the property's three f-curves replaces the
\* point at that frame by the property's current value.
keyframe_insert(ob, path, frame) ==
  [ob EXCEPT
     !.animation_data = TRUE,
     !.keyframe_points =
        {q \in ob.keyframe_points : ~(q.data_path = path /\ q.frame = frame)}
        \cup {[data_path |-> path, array_index |-> i, frame |-> frame,
               value |-> Property(ob, path)[i + 1],
               interpolation |-> "BEZIER"] : i \in 0..2}]

\* kf.interpolation = 'LINEAR' for every point of every f-curve of ob.
SetLinear(ob) ==
  [ob EXCEPT !.keyframe_points =
     {[q EXCEPT !.interpolation = "LINEAR"] : q \in ob.keyframe_points}]

\* ob.animation_data.action raises AttributeError when animation_data is None.
FcurvesRaises(ob) == ~ob.animation_data

\* One wall of add_box.  The rotation is in units of 0.5 * pi.
Wall(name, rotation, location, box_size) ==
  [name |-> name, rotation_euler |-> rotation, location |-> location,
   scale |-> <<box_size, box_size, box_size>>]

Keep(cond, wall) == IF cond THEN <<wall>> ELSE <<>>

\* add_box: the walls it adds, in order.
add_box(params) ==
  LET s == params.box_size IN
     Keep(params.show_xlo, Wall("wall-xlo", <<0, 1, 0>>, <<-s, 0, 0>>, s))
  \o Keep(params.show_xhi, Wall("wall-xhi", <<0, 1, 0>>, <<s, 0, 0>>, s))
  \o Keep(params.show_ylo, Wall("wall-ylo", <<1, 0, 0>>, <<0, -s, 0>>, s))
  \o Keep(params.show_yhi, Wall("wall-yhi", <<1, 0, 0>>, <<0, s, 0>>, s))
  \o Keep(params.show_zlo, Wall("wall-zlo", <<0, 0, 0>>, <<0, 0, -s>>, s))
  \o Keep(params.show_zhi, Wall("wall-zhi", <<0, 0, 0>>, <<0, 0, s>>, s))

----------------------------------------------------------------------------
\* State.

VARIABLES
  pc,             \* position of the import in load_billiard_data
  params,         \* the BilliardParams object
  rows,           \* rows the csv reader has returned so far
  b,              \* local b of the read loop: <<>> while unbound
  rspec,          \* radius overrides, a set of <<index, value>>
  clist,          \* the Collision list
  np,             \* number of particles
  radii,          \* radius of each particle
  oblist,         \* the spheres, by index
  k,              \* events replayed so far
  j,              \* objects the interpolation pass has done
  frame_current,  \* scene.frame_current
  kflog,          \* the keyframe_insert calls made, in order
  walls,          \* the planes add_box added
  err             \* the exception that ended the import, if any

vars == <<pc, params, rows, b, rspec, clist, np, radii, oblist, k, j,
          frame_current, kflog, walls, err>>

NoError == [type |-> "none", at |-> "none"]
Error(type, at) == [type |-> type, at |-> at]

\* BilliardParams.__init__ followed by the assignments of execute().
BilliardParams(s) ==
  [initfile |-> s.initfile, time_scale |-> s.time_scale,
   show_xlo |-> s.show_xlo, show_xhi |-> s.show_xhi,
   show_ylo |-> s.show_ylo, show_yhi |-> s.show_yhi,
   show_zlo |-> s.show_zlo, show_zhi |-> s.show_zhi,
   np |-> 0, box_size |-> 40, default_r |-> 1]

Init ==
  /\ pc = "Idle"
  /\ params \in {BilliardParams(s) : s \in Settings}
  /\ rows = <<>>
  /\ b = <<>>
  /\ rspec = {}
  /\ clist = <<>>
  /\ np = 0
  /\ radii = <<>>
  /\ oblist = <<>>
  /\ k = 0
  /\ j = 0
  /\ frame_current = 1
  /\ kflog = <<>>
  /\ walls = <<>>
  /\ err = NoError

\* Where control is once each loop has no iteration left.
PcLinearize(done, obs) ==
  IF done < Len(obs) THEN "Linearizing" ELSE "Enclosing"

PcAnimate(done, events, obs) ==
  IF done < Len(events) THEN "Animating" ELSE PcLinearize(0, obs)

PcPopulate(n, events, obs) ==
  IF Len(obs) < n THEN "Populating" ELSE PcAnimate(0, events, obs)

\* Variant of the read loop that carries on after a row that raises.
AfterRowSwallow(e) == "Parsing"

\* An exception raised in the read loop leaves load_billiard_data.
AfterRow(e) == IF e = "none" THEN "Parsing" ELSE "Failed"

----------------------------------------------------------------------------
\* Actions.

\* Entry of load_billiard_data: return at once without a file name, else
\* open the file and start reading.
Open ==
  /\ pc = "Idle"
  /\ pc' = IF params.initfile = "" THEN "Done" ELSE "Parsing"
  /\ UNCHANGED <<params, rows, b, rspec, clist, np, radii, oblist, k, j,
                 frame_current, kflog, walls, err>>

\* One iteration of the read loop.
ReadRow(row) ==
  /\ pc = "Parsing"
  /\ Len(rows) < MaxRows
  /\ rows' = Append(rows, row)
  /\ LET e  == RowError(row)
         st == [b |-> b, default_r |-> params.default_r,
                rspec |-> rspec, clist |-> clist]
         nx == IF e = "none" THEN ParseRow(st, row) ELSE st
     IN /\ pc' = AfterRow(e)
        /\ err' = IF pc' = "Failed" THEN Error(e, "parse") ELSE err
        /\ b' = nx.b
        /\ params' = [params EXCEPT !.default_r = nx.default_r]
        /\ rspec' = nx.rspec
        /\ clist' = nx.clist
  /\ UNCHANGED <<np, radii, oblist, k, j, frame_current, kflog, walls>>

\* The reader is exhausted: the file is closed.
EndOfFile ==
  /\ pc = "Parsing"
  /\ pc' = "Parsed"
  /\ UNCHANGED <<params, rows, b, rspec, clist, np, radii, oblist, k, j,
                 frame_current, kflog, walls, err>>

\* Particle count and radii.
Derive ==
  /\ pc = "Parsed"
  /\ IF MaxRaises(clist)
     THEN /\ pc' = "Failed"
          /\ err' = Error("ValueError", "max")
          /\ UNCHANGED <<np, radii>>
     ELSE /\ np' = ParticleCount(clist)
          /\ IF RadiiRaises(np', rspec)
             THEN /\ pc' = "Failed"
                  /\ err' = Error("IndexError", "radii")
                  /\ radii' = [i \in 1..np' |-> params.default_r]
             ELSE /\ pc' = PcPopulate(np', clist, oblist)
                  /\ err' = err
                  /\ radii' = Radii(np', params.default_r, rspec)
  /\ UNCHANGED <<params, rows, b, rspec, clist, oblist, k, j,
                 frame_current, kflog, walls>>

\* One iteration of the sphere loop.
AddSphere ==
  /\ pc = "Populating"
  /\ oblist' = Append(oblist, NewSphere(Len(oblist)))
  /\ pc' = PcPopulate(np, clist, oblist')
  /\ UNCHANGED <<params, rows, b, rspec, clist, np, radii, k, j,
                 frame_current, kflog, walls, err>>

\* One iteration of the keyframe loop.
SetKeyframes ==
  /\ pc = "Animating"
  /\ LET coll      == clist[k + 1]
         frame_num == t2frame(coll.t, params.time_scale)
     IN /\ frame_current' = frame_num
        /\ IF coll.index >= Len(oblist)
           THEN /\ pc' = "Failed"
                /\ err' = Error("IndexError", "animate")
                /\ UNCHANGED <<oblist, k, kflog>>
           ELSE LET r   == radii[coll.index + 1]
                    ob  == [oblist[coll.index + 1] EXCEPT
                              !.rotation_euler = coll.angles,
                              !.location = coll.xyz,
                              !.scale = <<r, r, r>>]
                    ob1 == keyframe_insert(ob, "location", frame_num)
                    ob2 == keyframe_insert(ob1, "rotation_euler", frame_num)
                    call(path) == [ob |-> coll.index, data_path |-> path,
                                   frame |-> frame_num,
                                   value |-> Property(ob, path),
                                   scale |-> ob.scale]
                IN /\ oblist' = [oblist EXCEPT ![coll.index + 1] = ob2]
                   /\ kflog' = kflog \o <<call("location"), call("rotation_euler")>>
                   /\ k' = k + 1
                   /\ pc' = PcAnimate(k', clist, oblist')
                   /\ err' = err
  /\ UNCHANGED <<params, rows, b, rspec, clist, np, radii, j, walls>>

\* One iteration of the interpolation loop.
Linearize ==
  /\ pc = "Linearizing"
  /\ IF FcurvesRaises(oblist[j + 1])
     THEN /\ pc' = "Failed"
          /\ err' = Error("AttributeError", "linearize")
          /\ UNCHANGED <<oblist, j>>
     ELSE /\ oblist' = [oblist EXCEPT ![j + 1] = SetLinear(oblist[j + 1])]
          /\ j' = j + 1
          /\ pc' = PcLinearize(j', oblist')
          /\ err' = err
  /\ UNCHANGED <<params, rows, b, rspec, clist, np, radii, k,
                 frame_current, kflog, walls>>

\* add_box(params)
AddBox ==
  /\ pc = "Enclosing"
  /\ walls' = add_box(params)
  /\ pc' = "Enclosed"
  /\ UNCHANGED <<params, rows, b, rspec, clist, np, radii, oblist, k, j,
                 frame_current, kflog, err>>

\* load_billiard_data returns.
Return ==
  /\ pc = "Enclosed"
  /\ pc' = "Done"
  /\ UNCHANGED <<params, rows, b, rspec, clist, np, radii, oblist, k, j,
                 frame_current, kflog, walls, err>>

Next ==
  \/ Open
  \/ \E row \in Rows : ReadRow(row)
  \/ EndOfFile
  \/ Derive
  \/ AddSphere
  \/ SetKeyframes
  \/ Linearize
  \/ AddBox
  \/ Return

Spec == Init /\ [][Next]_vars

----------------------------------------------------------------------------
\* The read loop as a whole: the state after the rows rs, stopping at the
\* first row that raises.
RECURSIVE ParseAll(_, _)
ParseAll(st, rs) ==
  IF rs = <<>> \/ RowError(Head(rs)) # "none" THEN st
  ELSE ParseAll(ParseRow(st, Head(rs)), Tail(rs))

----------------------------------------------------------------------------
\* Vocabulary of the properties, read off the input file alone.

Tag(row) == IF Len(row) = 0 THEN "" ELSE row[1].txt

\* The collision rows of the file, in file order.
CRows == SelectSeq(rows, LAMBDA row : Tag(row) = "c")

\* Index, time, position and orientation columns of a collision row.
RowIndex(row) == row[2].num \div Den
RowTime(row)  == row[4].num
RowXYZ(row)   == <<row[5].num, row[6].num, row[7].num>>
RowAngles(row) == <<row[8].num, row[9].num, row[10].num>>

SetMax(S) == CHOOSE m \in S : \A n \in S : n <= m

\* The spheres exist: the sphere loop has finished.
Created ==
  \/ pc \in {"Animating", "Linearizing", "Enclosing", "Enclosed"}
  \/ pc = "Done" /\ params.initfile # ""
  \/ pc = "Failed" /\ err.at \in {"animate", "linearize"}

\* The number a frame is expected to have when the product is rounded
\* toward zero, and when it is rounded down.
FrameTowardZero(t, tscale) ==
  IF t * tscale >= 0 THEN ((t * tscale) \div (Den * Den)) + 1
  ELSE 1 - ((-(t * tscale)) \div (Den * Den))

FrameFloor(t, tscale) ==
  LET p == t * tscale
      d == Den * Den
  IN IF p >= 0 THEN (p \div d) + 1 ELSE 1 - ((d - 1 - p) \div d)

----------------------------------------------------------------------------
----------------------------------------------------------------------------
\* The radius override and the default radius the file gives, the later row
\* deciding where several rows give one.
OverrideRows(i) ==
  {n \in 1..Len(rows) : Tag(rows[n]) = "r" /\ rows[n][2].num \div Den = i}

DefaultRows == {n \in 1..Len(rows) : Tag(rows[n]) = "default-radius"}

FileDefault == IF DefaultRows = {} THEN 1 ELSE rows[SetMax(DefaultRows)][2].num

FileRadius(i) ==
  IF OverrideRows(i) = {} THEN FileDefault
  ELSE rows[SetMax(OverrideRows(i))][3].num

\* C2: every keyframe_insert call on object i is made with the object
\* scaled to (v, v, v), v being the value of the file's 'r' row for i when
\* there is one and otherwise the default radius (the file's default-radius
\* value, or 0.1), wherever the 'r' row stands relative to the
\* default-radius row; the object keeps that scale.
ThmC2 ==
  /\ \A n \in 1..Len(kflog) :
       LET v == FileRadius(kflog[n].ob) IN kflog[n].scale = <<v, v, v>>
  /\ \A n \in 1..Len(kflog) :
       LET v == FileRadius(kflog[n].ob) IN
       oblist[kflog[n].ob + 1].scale = <<v, v, v>>

\* Object 1 is keyframed under an 'r' row that precedes the default-radius
\* row, and object 0 is keyframed under the file's default radius.
WitC2 ==
  /\ \E m, n \in 1..Len(rows) :
       /\ m < n
       /\ Tag(rows[m]) = "r" /\ rows[m][2].num \div Den = 1
       /\ Tag(rows[n]) = "default-radius"
  /\ \E n \in 1..Len(kflog) : kflog[n].ob = 1 /\ kflog[n].scale = <<5, 5, 5>>
  /\ \E n \in 1..Len(kflog) : kflog[n].ob = 0 /\ kflog[n].scale = <<2, 2, 2>>

----------------------------------------------------------------------------
\* C3 as stated: the frame of every keyframe is floor(time * time_scale) + 1,
\* negative and non-integral products included.
CexC3 ==
  \A n \in 1..Len(kflog) :
    kflog[n].frame = FrameFloor(RowTime(CRows[(n + 1) \div 2]), params.time_scale)

\* C3, amended: the frame of every keyframe is time * time_scale rounded
\* toward zero, plus 1; it is floor(time * time_scale) + 1 when the product
\* is not negative.  The scene's current frame is the frame of the latest
\* event.
ThmC3 ==
  /\ \A n \in 1..Len(kflog) :
       LET t == RowTime(CRows[(n + 1) \div 2]) IN
       /\ kflog[n].frame = FrameTowardZero(t, params.time_scale)
       /\ t * params.time_scale >= 0 =>
            kflog[n].frame = FrameFloor(t, params.time_scale)
  /\ kflog # <<>> /\ pc # "Failed" => frame_current = kflog[Len(kflog)].frame

\* A keyframe is inserted for a negative non-integral product, and one for a
\* positive non-integral product.
WitC3 ==
  /\ \E n \in 1..Len(kflog) :
       LET p == RowTime(CRows[(n + 1) \div 2]) * params.time_scale IN
       p < 0 /\ p % (Den * Den) # 0
  /\ \E n \in 1..Len(kflog) :
       LET p == RowTime(CRows[(n + 1) \div 2]) * params.time_scale IN
       p > 0 /\ p % (Den * Den) # 0

----------------------------------------------------------------------------
\* C4: the keyframe_insert calls follow the file: the calls of the n-th
\* collision row (location, then rotation_euler) are the n-th pair of calls,
\* on that row's object, frame, position and orientation, whatever the
\* times; once the keyframe loop has finished every collision row has its
\* pair.
ThmC4 ==
  /\ Len(kflog) = 2 * k
  /\ k <= Len(CRows)
  /\ \A n \in 1..k :
       LET row == CRows[n]
           f   == FrameTowardZero(RowTime(row), params.time_scale)
       IN /\ kflog[2 * n - 1] =
               [ob |-> RowIndex(row), data_path |-> "location", frame |-> f,
                value |-> RowXYZ(row), scale |-> kflog[2 * n - 1].scale]
          /\ kflog[2 * n] =
               [ob |-> RowIndex(row), data_path |-> "rotation_euler", frame |-> f,
                value |-> RowAngles(row), scale |-> kflog[2 * n].scale]
  /\ pc \in {"Linearizing", "Enclosing", "Enclosed"} => k = Len(CRows)

\* Object 0 receives its keyframes at frame 121 and afterwards at frame 25.
WitC4 ==
  /\ Len(kflog) >= 4
  /\ kflog[1].ob = 0 /\ kflog[1].frame = 121
  /\ kflog[3].ob = 0 /\ kflog[3].frame = 25

----------------------------------------------------------------------------
\* C5: an import that opened a file without collision rows never gets past
\* the end of the read loop: no sphere, keyframe or wall exists, it does not
\* complete, and when the file was read to its end it fails on the empty
\* event list (the ValueError of max()).
ThmC5 ==
  (pc # "Idle" /\ params.initfile # "" /\ CRows = <<>>) =>
     /\ oblist = <<>> /\ kflog = <<>> /\ walls = <<>>
     /\ pc \in {"Parsing", "Parsed", "Failed"}
     /\ pc = "Failed" => err.at \in {"parse", "max"}
     /\ pc = "Failed" /\ err.at = "max" => err.type = "ValueError"

\* A file of box, radius and comment rows only was read to its end and the
\* import failed on the empty event list.
WitC5 ==
  /\ pc = "Failed" /\ err = Error("ValueError", "max")
  /\ CRows = <<>>
  /\ \E n \in 1..Len(rows) : Tag(rows[n]) = "box"
  /\ \E n \in 1..Len(rows) : Tag(rows[n]) = "r"

----------------------------------------------------------------------------
\* A collision row of n numeric fields after the tag.
IsCRow(row, n) ==
  /\ Len(row) = n + 1
  /\ Tag(row) = "c"
  /\ \A i \in 2..(n + 1) : row[i].txt = "num"

LastRow == rows[Len(rows)]

\* C6 as stated: the row c,index,time,x,y,z,rx,ry,rz (eight values) appends
\* one event with those fields.
CexC6 ==
  (pc \in {"Parsing", "Failed"} /\ rows # <<>> /\ IsCRow(LastRow, 8)) =>
     /\ pc = "Parsing"
     /\ Len(clist) = Len(CRows)
     /\ clist[Len(clist)] =
          [index |-> LastRow[2].num \div Den, t |-> LastRow[3].num,
           xyz |-> <<LastRow[4].num, LastRow[5].num, LastRow[6].num>>,
           angles |-> <<LastRow[7].num, LastRow[8].num, LastRow[9].num>>]

\* C6, amended: a collision row has nine values, c,index,<unused>,time,x,y,z,
\* rx,ry,rz.  Reading it appends one event whose index is the integer part of
\* column 1, whose time is column 3, position columns 4-6 and orientation
\* columns 7-9; a collision row of eight values ends the import with an
\* IndexError.
ThmC6 ==
  /\ (pc = "Parsing" /\ rows # <<>> /\ IsCRow(LastRow, 9)) =>
       /\ Len(clist) = Len(CRows)
       /\ clist[Len(clist)] =
            [index |-> LastRow[2].num \div Den, t |-> LastRow[4].num,
             xyz |-> <<LastRow[5].num, LastRow[6].num, LastRow[7].num>>,
             angles |-> <<LastRow[8].num, LastRow[9].num, LastRow[10].num>>]
  /\ (rows # <<>> /\ IsCRow(LastRow, 9)) => ~(pc = "Failed" /\ err.at = "parse")
  /\ (rows # <<>> /\ IsCRow(LastRow, 8)) =>
       /\ pc = "Failed" /\ err = Error("IndexError", "parse")
       /\ Len(clist) = Len(CRows) - 1

\* The second collision row of a file has just been read.
WitC6 ==
  /\ pc = "Parsing" /\ rows # <<>> /\ IsCRow(LastRow, 9)
  /\ Len(clist) = 2
  /\ clist[2].index = 1 /\ clist[2].t = -1

----------------------------------------------------------------------------
\* Lines the parser is to skip: blank, empty first field, or starting '#'.
Skippable(row) ==
  Len(row) = 0 \/ row[1].txt = "" \/ row[1].txt = "# comment"

\* C7 as stated: no import fails on a skippable line, and what the parser
\* holds is what it holds after the file with those lines removed.
CexC7 ==
  /\ (pc = "Failed" /\ err.at = "parse") => ~Skippable(LastRow)
  /\ (pc # "Idle" /\ ~(pc = "Failed" /\ err.at = "parse")) =>
       [b |-> b, default_r |-> params.default_r, rspec |-> rspec, clist |-> clist]
         = ParseAll(ParseInit(1), SelectSeq(rows, LAMBDA row : ~Skippable(row)))

----------------------------------------------------------------------------
\* The stages of the pipeline; 6 is the halt of a failed import.
Stage ==
  CASE pc \in {"Idle", "Parsing"}          -> 0
    [] pc \in {"Parsed", "Populating"}     -> 1
    [] pc \in {"Animating", "Linearizing"} -> 2
    [] pc = "Enclosing"                    -> 3
    [] pc = "Enclosed"                     -> 4
    [] pc = "Done"                         -> 5
    [] OTHER                               -> 6

StageStep ==
  /\ pc = "Failed" => pc' = "Failed"
  /\ \/ Stage' = Stage
     \/ Stage' = Stage + 1
     \/ pc' = "Failed"
     \/ pc = "Idle" /\ params.initfile = "" /\ pc' = "Done"

\* C8: an import moves from a stage only to the next one (or returns at once
\* without a file name, or halts on a failure), and an import whose file
\* holds a row the parser fails on never leaves the first stage except to
\* halt: it has no sphere, no keyframe and no wall.
ThmC8 ==
  /\ [][StageStep]_vars
  /\ []((\E n \in 1..Len(rows) : RowError(rows[n]) # "none") =>
          /\ Stage \in {0, 6}
          /\ oblist = <<>> /\ kflog = <<>> /\ walls = <<>>)

\* An import halted on a malformed last row after reading three good rows,
\* collision rows among them.
WitC8 ==
  /\ pc = "Failed" /\ err.at = "parse"
  /\ Len(rows) = 4
  /\ Len(clist) >= 2
  /\ LastRow = <<Txt("box"), Txt("abc")>>

----------------------------------------------------------------------------
\* C9 as stated: the interpolation pass never fails, and once it is over
\* every keyframe point of every sphere is linear.
CexC9 ==
  /\ ~(pc = "Failed" /\ err.at = "linearize")
  /\ (pc \in {"Enclosing", "Enclosed"} \/ (pc = "Done" /\ params.initfile # "")) =>
       /\ j = Len(oblist)
       /\ \A i \in 1..Len(oblist) :
            \A q \in oblist[i].keyframe_points : q.interpolation = "LINEAR"

----------------------------------------------------------------------------
BoxRows == {n \in 1..Len(rows) : Tag(rows[n]) = "box"}

\* C10 as stated: after an import of a file with a box row, every wall
\* stands at plus or minus the box value on its axis and is scaled to it.
CexC10 ==
  (pc \in {"Enclosed", "Done"} /\ BoxRows # {}) =>
     LET v == rows[SetMax(BoxRows)][2].num IN
     \A n \in 1..Len(walls) :
        /\ walls[n].scale = <<v, v, v>>
        /\ \E a \in 1..3 :
             /\ walls[n].location[a] \in {v, -v}
             /\ \A c \in (1..3) \ {a} : walls[n].location[c] = 0

====
